---- MODULE Spec2Model ----
(***************************************************************************)
(* Model of the inventory part of HOF.js (lines 194-372).                  *)
(*                                                                         *)
(* JavaScript objects are references, so the model keeps a heap: a         *)
(* sequence of item records addressed by their (1-based) position.  An     *)
(* array is a sequence of heap addresses.  Object literals allocate a new  *)
(* heap cell; .filter() and .find() hand back the addresses they were      *)
(* given.  The script is a straight line of statements; pc is the          *)
(* statement about to run and i is the for-loop's counter (0-based, as in  *)
(* the source).                                                            *)
(***************************************************************************)
EXTENDS Integers, Sequences, FiniteSets, TLC

\* Longest generated inventory (the literal inventory of the script, of
\* length 4, is always among the initial states as well).
MaxLen == 2

Names == {"Sword", "Bow"}

\* Powers around the thresholds of the script (5 and 10), plus a negative one.
Powers == {-3, 5, 6, 10, 11}

Items == [name : Names, power : Powers, broken : BOOLEAN]

\* src/HOF.js:194-199
LiteralInventory ==
  << [name |-> "Sword",  power |-> 10, broken |-> FALSE],
     [name |-> "Shield", power |-> 5,  broken |-> FALSE],
     [name |-> "Bow",    power |-> 8,  broken |-> TRUE],
     [name |-> "Axe",    power |-> 12, broken |-> FALSE] >>

Inventories == (UNION {[1..n -> Items] : n \in 0..MaxLen}) \cup {LiteralInventory}

\* What .find() returns when nothing matches (no heap address is 0).
Undefined == 0

\* What .findIndex() returns when nothing matches.
NotFoundIndex == -1

VARIABLES heap, inventory, original, pc, i,
          upgradedInventoryLoop, upgradedInventoryMap, upgradedInventoryConcise,
          usableInventory, usableInventoryAlt, upgradedAndFiltered, logged,
          powerfulItem, brokenItemIndex, hasBrokenItems, allPowerful, totalPower

vars == << heap, inventory, original, pc, i,
           upgradedInventoryLoop, upgradedInventoryMap, upgradedInventoryConcise,
           usableInventory, usableInventoryAlt, upgradedAndFiltered, logged,
           powerfulItem, brokenItemIndex, hasBrokenItems, allPowerful, totalPower >>

\* The records an array of addresses points at.
Deref(h, arr) == [k \in 1..Len(arr) |-> h[arr[k]]]

----------------------------------------------------------------------------
\* The callbacks of the script.

\* Variant: the rebuilt record forgets the broken flag of the original.
UpgradeItemLoop_ForgetsBroken(h, r) ==
  [heap |-> Append(h, [name   |-> h[r].name,
                       power  |-> h[r].power + 5,
                       broken |-> FALSE]),
   ret  |-> Len(h) + 1]

\* { name: inventory[i].name, power: inventory[i].power + 5, broken: ... }
UpgradeItemLoop(h, r) ==
  [heap |-> Append(h, [name   |-> h[r].name,
                       power  |-> h[r].power + 5,
                       broken |-> h[r].broken]),
   ret  |-> Len(h) + 1]

\* Variant: the power is copied without the upgrade.
UpgradeItemMap_NoUpgrade(h, r) ==
  [heap |-> Append(h, [name   |-> h[r].name,
                       power  |-> h[r].power,
                       broken |-> h[r].broken]),
   ret  |-> Len(h) + 1]

\* item => { return { name: item.name, power: item.power + 5, broken: item.broken } }
UpgradeItemMap(h, r) ==
  [heap |-> Append(h, [name   |-> h[r].name,
                       power  |-> h[r].power + 5,
                       broken |-> h[r].broken]),
   ret  |-> Len(h) + 1]

\* Variant: item.power += 5 on the original object, which is then returned
\* (the in-place upgrade the source keeps commented out at lines 210-214).
UpgradeItemConcise_InPlace(h, r) ==
  [heap |-> [h EXCEPT ![r].power = h[r].power + 5],
   ret  |-> r]

\* item => ({ ...item, power: item.power + 5 })
UpgradeItemConcise(h, r) ==
  [heap |-> Append(h, [h[r] EXCEPT !.power = h[r].power + 5]),
   ret  |-> Len(h) + 1]

\* Variant: the test is inverted.
IsUsable_Inverted(h, r) == h[r].broken = TRUE

\* item => item.broken === false
IsUsable(h, r) == h[r].broken = FALSE

\* item => !item.broken
IsNotBroken(h, r) == ~h[r].broken

\* item => ({ ...item, power: item.power + 5 }) inside upgradeAndFilterInventory
UpgradeItemChained(h, r) ==
  [heap |-> Append(h, [h[r] EXCEPT !.power = h[r].power + 5]),
   ret  |-> Len(h) + 1]

\* Variant: the filter keeps everything.
KeepNotBroken_KeepsAll(h, r) == TRUE

\* item => !item.broken inside upgradeAndFilterInventory
KeepNotBroken(h, r) == ~h[r].broken

\* what the forEach callback prints for one item
LogItem(h, r) ==
  [name   |-> h[r].name,
   power  |-> h[r].power,
   status |-> IF h[r].broken THEN "Broken" ELSE "Not broken"]

\* Variant: >= instead of >.
IsPowerful_OrEqual(h, r) == h[r].power >= 10

\* item => item.power > 10
IsPowerful(h, r) == h[r].power > 10

\* item => item.broken  (.findIndex)
IsBrokenForIndex(h, r) == h[r].broken

\* Variant: the test is negated.
IsBroken_Negated(h, r) == ~h[r].broken

\* item => item.broken  (.some)
IsBroken(h, r) == h[r].broken

\* Variant: >= instead of >.
IsAboveFive_OrEqual(h, r) == h[r].power >= 5

\* item => item.power > 5
IsAboveFive(h, r) == h[r].power > 5

\* Variant: the accumulator is dropped.
AddPower_DropsSum(h, sum, r) == h[r].power

\* (sum, item) => sum + item.power
AddPower(h, sum, r) == sum + h[r].power

----------------------------------------------------------------------------
\* Calling a callback that was passed by name.  A callback that builds an
\* object gets the heap and the address of the current element and returns the
\* new heap and the address of its result; a testing callback gets the same and
\* returns a boolean.

CallBuilder(cb, h, r) ==
  CASE cb = "UpgradeItemMap"     -> UpgradeItemMap(h, r)
    [] cb = "UpgradeItemConcise" -> UpgradeItemConcise(h, r)
    [] cb = "UpgradeItemChained" -> UpgradeItemChained(h, r)

CallTest(cb, h, r) ==
  CASE cb = "IsUsable"         -> IsUsable(h, r)
    [] cb = "IsNotBroken"      -> IsNotBroken(h, r)
    [] cb = "KeepNotBroken"    -> KeepNotBroken(h, r)
    [] cb = "IsPowerful"       -> IsPowerful(h, r)
    [] cb = "IsBrokenForIndex" -> IsBrokenForIndex(h, r)
    [] cb = "IsBroken"         -> IsBroken(h, r)
    [] cb = "IsAboveFive"      -> IsAboveFive(h, r)

CallReducer(cb, h, sum, r) ==
  CASE cb = "AddPower" -> AddPower(h, sum, r)

CallPrinter(cb, h, r) ==
  CASE cb = "LogItem" -> LogItem(h, r)

----------------------------------------------------------------------------
\* Built-in array methods.  The callback argument cb is the name of one of the
\* callbacks above.

ArrayMap(h, arr, cb) ==
  LET step[k \in 0..Len(arr)] ==
        IF k = 0 THEN [heap |-> h, out |-> <<>>]
        ELSE LET prev == step[k - 1]
                 r    == CallBuilder(cb, prev.heap, arr[k])
             IN  [heap |-> r.heap, out |-> Append(prev.out, r.ret)]
  IN  step[Len(arr)]

ArrayFilter(h, arr, cb) ==
  LET step[k \in 0..Len(arr)] ==
        IF k = 0 THEN <<>>
        ELSE IF CallTest(cb, h, arr[k]) THEN Append(step[k - 1], arr[k])
             ELSE step[k - 1]
  IN  step[Len(arr)]

ArrayFind(h, arr, cb) ==
  LET step[k \in 1..(Len(arr) + 1)] ==
        IF k > Len(arr) THEN Undefined
        ELSE IF CallTest(cb, h, arr[k]) THEN arr[k]
             ELSE step[k + 1]
  IN  step[1]

\* Variant: "nothing matches" reported as 0.
ArrayFindIndex_ZeroWhenMissing(h, arr, cb) ==
  LET step[k \in 1..(Len(arr) + 1)] ==
        IF k > Len(arr) THEN 0
        ELSE IF CallTest(cb, h, arr[k]) THEN k - 1
             ELSE step[k + 1]
  IN  step[1]

\* The result is the 0-based index of the source.
ArrayFindIndex(h, arr, cb) ==
  LET step[k \in 1..(Len(arr) + 1)] ==
        IF k > Len(arr) THEN NotFoundIndex
        ELSE IF CallTest(cb, h, arr[k]) THEN k - 1
             ELSE step[k + 1]
  IN  step[1]

ArraySome(h, arr, cb) ==
  LET step[k \in 1..(Len(arr) + 1)] ==
        IF k > Len(arr) THEN FALSE
        ELSE IF CallTest(cb, h, arr[k]) THEN TRUE
             ELSE step[k + 1]
  IN  step[1]

ArrayEvery(h, arr, cb) ==
  LET step[k \in 1..(Len(arr) + 1)] ==
        IF k > Len(arr) THEN TRUE
        ELSE IF ~CallTest(cb, h, arr[k]) THEN FALSE
             ELSE step[k + 1]
  IN  step[1]

ArrayReduce(h, arr, cb, initial) ==
  LET step[k \in 0..Len(arr)] ==
        IF k = 0 THEN initial
        ELSE CallReducer(cb, h, step[k - 1], arr[k])
  IN  step[Len(arr)]

ArrayForEach(h, arr, cb) ==
  [k \in 1..Len(arr) |-> CallPrinter(cb, h, arr[k])]

----------------------------------------------------------------------------
\* const upgradeAndFilterInventory = inputInventory => inputInventory.map(...).filter(...)
upgradeAndFilterInventory(h, inputInventory) ==
  LET mapped == ArrayMap(h, inputInventory, "UpgradeItemChained")
  IN  [heap |-> mapped.heap,
       out  |-> ArrayFilter(mapped.heap, mapped.out, "KeepNotBroken")]

----------------------------------------------------------------------------
Init ==
  /\ \E inv \in Inventories :
       /\ heap = inv
       /\ inventory = [k \in 1..Len(inv) |-> k]
       /\ original = inv
  /\ pc = "loop"
  /\ i = 0
  /\ upgradedInventoryLoop = <<>>
  /\ upgradedInventoryMap = <<>>
  /\ upgradedInventoryConcise = <<>>
  /\ usableInventory = <<>>
  /\ usableInventoryAlt = <<>>
  /\ upgradedAndFiltered = <<>>
  /\ logged = <<>>
  /\ powerfulItem = Undefined
  /\ brokenItemIndex = NotFoundIndex
  /\ hasBrokenItems = FALSE
  /\ allPowerful = FALSE
  /\ totalPower = 0

\* for (let i = 0; i < inventory.length; i++) { upgradedInventoryLoop.push({...}) }
LoopBody ==
  /\ pc = "loop"
  /\ i < Len(inventory)
  /\ LET r == UpgradeItemLoop(heap, inventory[i + 1])
     IN  /\ heap' = r.heap
         /\ upgradedInventoryLoop' = Append(upgradedInventoryLoop, r.ret)
  /\ i' = i + 1
  /\ UNCHANGED << inventory, original, pc,
                  upgradedInventoryMap, upgradedInventoryConcise,
                  usableInventory, usableInventoryAlt, upgradedAndFiltered, logged,
                  powerfulItem, brokenItemIndex, hasBrokenItems, allPowerful, totalPower >>

LoopExit ==
  /\ pc = "loop"
  /\ ~(i < Len(inventory))
  /\ pc' = "map"
  /\ UNCHANGED << heap, inventory, original, i,
                  upgradedInventoryLoop, upgradedInventoryMap, upgradedInventoryConcise,
                  usableInventory, usableInventoryAlt, upgradedAndFiltered, logged,
                  powerfulItem, brokenItemIndex, hasBrokenItems, allPowerful, totalPower >>

\* const upgradedInventoryMap = inventory.map(item => { ... })
MapStep ==
  /\ pc = "map"
  /\ LET r == ArrayMap(heap, inventory, "UpgradeItemMap")
     IN  /\ heap' = r.heap
         /\ upgradedInventoryMap' = r.out
  /\ pc' = "concise"
  /\ UNCHANGED << inventory, original, i,
                  upgradedInventoryLoop, upgradedInventoryConcise,
                  usableInventory, usableInventoryAlt, upgradedAndFiltered, logged,
                  powerfulItem, brokenItemIndex, hasBrokenItems, allPowerful, totalPower >>

\* const upgradedInventoryConcise = inventory.map(item => ({ ...item, power: ... }))
ConciseStep ==
  /\ pc = "concise"
  /\ LET r == ArrayMap(heap, inventory, "UpgradeItemConcise")
     IN  /\ heap' = r.heap
         /\ upgradedInventoryConcise' = r.out
  /\ pc' = "filter"
  /\ UNCHANGED << inventory, original, i,
                  upgradedInventoryLoop, upgradedInventoryMap,
                  usableInventory, usableInventoryAlt, upgradedAndFiltered, logged,
                  powerfulItem, brokenItemIndex, hasBrokenItems, allPowerful, totalPower >>

\* const usableInventory = inventory.filter(item => item.broken === false)
FilterStep ==
  /\ pc = "filter"
  /\ usableInventory' = ArrayFilter(heap, inventory, "IsUsable")
  /\ pc' = "filterAlt"
  /\ UNCHANGED << heap, inventory, original, i,
                  upgradedInventoryLoop, upgradedInventoryMap, upgradedInventoryConcise,
                  usableInventoryAlt, upgradedAndFiltered, logged,
                  powerfulItem, brokenItemIndex, hasBrokenItems, allPowerful, totalPower >>

\* const usableInventoryAlt = inventory.filter(item => !item.broken)
FilterAltStep ==
  /\ pc = "filterAlt"
  /\ usableInventoryAlt' = ArrayFilter(heap, inventory, "IsNotBroken")
  /\ pc' = "upgradeAndFilter"
  /\ UNCHANGED << heap, inventory, original, i,
                  upgradedInventoryLoop, upgradedInventoryMap, upgradedInventoryConcise,
                  usableInventory, upgradedAndFiltered, logged,
                  powerfulItem, brokenItemIndex, hasBrokenItems, allPowerful, totalPower >>

\* console.log(..., upgradeAndFilterInventory(inventory))
UpgradeAndFilterStep ==
  /\ pc = "upgradeAndFilter"
  /\ LET r == upgradeAndFilterInventory(heap, inventory)
     IN  /\ heap' = r.heap
         /\ upgradedAndFiltered' = r.out
  /\ pc' = "forEach"
  /\ UNCHANGED << inventory, original, i,
                  upgradedInventoryLoop, upgradedInventoryMap, upgradedInventoryConcise,
                  usableInventory, usableInventoryAlt, logged,
                  powerfulItem, brokenItemIndex, hasBrokenItems, allPowerful, totalPower >>

\* inventory.forEach(item => { console.log(...) })
ForEachStep ==
  /\ pc = "forEach"
  /\ logged' = ArrayForEach(heap, inventory, "LogItem")
  /\ pc' = "find"
  /\ UNCHANGED << heap, inventory, original, i,
                  upgradedInventoryLoop, upgradedInventoryMap, upgradedInventoryConcise,
                  usableInventory, usableInventoryAlt, upgradedAndFiltered,
                  powerfulItem, brokenItemIndex, hasBrokenItems, allPowerful, totalPower >>

\* const powerfulItem = inventory.find(item => item.power > 10)
FindStep ==
  /\ pc = "find"
  /\ powerfulItem' = ArrayFind(heap, inventory, "IsPowerful")
  /\ pc' = "findIndex"
  /\ UNCHANGED << heap, inventory, original, i,
                  upgradedInventoryLoop, upgradedInventoryMap, upgradedInventoryConcise,
                  usableInventory, usableInventoryAlt, upgradedAndFiltered, logged,
                  brokenItemIndex, hasBrokenItems, allPowerful, totalPower >>

\* const brokenItemIndex = inventory.findIndex(item => item.broken)
FindIndexStep ==
  /\ pc = "findIndex"
  /\ brokenItemIndex' = ArrayFindIndex(heap, inventory, "IsBrokenForIndex")
  /\ pc' = "some"
  /\ UNCHANGED << heap, inventory, original, i,
                  upgradedInventoryLoop, upgradedInventoryMap, upgradedInventoryConcise,
                  usableInventory, usableInventoryAlt, upgradedAndFiltered, logged,
                  powerfulItem, hasBrokenItems, allPowerful, totalPower >>

\* const hasBrokenItems = inventory.some(item => item.broken)
SomeStep ==
  /\ pc = "some"
  /\ hasBrokenItems' = ArraySome(heap, inventory, "IsBroken")
  /\ pc' = "every"
  /\ UNCHANGED << heap, inventory, original, i,
                  upgradedInventoryLoop, upgradedInventoryMap, upgradedInventoryConcise,
                  usableInventory, usableInventoryAlt, upgradedAndFiltered, logged,
                  powerfulItem, brokenItemIndex, allPowerful, totalPower >>

\* const allPowerful = inventory.every(item => item.power > 5)
EveryStep ==
  /\ pc = "every"
  /\ allPowerful' = ArrayEvery(heap, inventory, "IsAboveFive")
  /\ pc' = "reduce"
  /\ UNCHANGED << heap, inventory, original, i,
                  upgradedInventoryLoop, upgradedInventoryMap, upgradedInventoryConcise,
                  usableInventory, usableInventoryAlt, upgradedAndFiltered, logged,
                  powerfulItem, brokenItemIndex, hasBrokenItems, totalPower >>

\* const totalPower = inventory.reduce((sum, item) => sum + item.power, 0)
ReduceStep ==
  /\ pc = "reduce"
  /\ totalPower' = ArrayReduce(heap, inventory, "AddPower", 0)
  /\ pc' = "done"
  /\ UNCHANGED << heap, inventory, original, i,
                  upgradedInventoryLoop, upgradedInventoryMap, upgradedInventoryConcise,
                  usableInventory, usableInventoryAlt, upgradedAndFiltered, logged,
                  powerfulItem, brokenItemIndex, hasBrokenItems, allPowerful >>

Next ==
  \/ LoopBody
  \/ LoopExit
  \/ MapStep
  \/ ConciseStep
  \/ FilterStep
  \/ FilterAltStep
  \/ UpgradeAndFilterStep
  \/ ForEachStep
  \/ FindStep
  \/ FindIndexStep
  \/ SomeStep
  \/ EveryStep
  \/ ReduceStep

Spec == Init /\ [][Next]_vars

----------------------------------------------------------------------------
\* Properties.

PcOrder == << "loop", "map", "concise", "filter", "filterAlt", "upgradeAndFilter",
              "forEach", "find", "findIndex", "some", "every", "reduce", "done" >>

PcIndex(p) == CHOOSE k \in 1..Len(PcOrder) : PcOrder[k] = p

\* The statement at position p has run.
After(p) == PcIndex(pc) > PcIndex(p)

\* out is S with 5 added to every power and nothing else changed.
IsUpgradeOf(out, S) ==
  /\ Len(out) = Len(S)
  /\ \A k \in 1..Len(S) :
       /\ out[k].name = S[k].name
       /\ out[k].broken = S[k].broken
       /\ out[k].power = S[k].power + 5

SumPower(S) ==
  LET sumTo[k \in 0..Len(S)] == IF k = 0 THEN 0 ELSE sumTo[k - 1] + S[k].power
  IN  sumTo[Len(S)]

C2_InputNotMutated ==
  /\ Len(inventory) = Len(original)
  /\ \A k \in 1..Len(original) : heap[inventory[k]] = original[k]

C2_Witness ==
  /\ pc = "done"
  /\ Len(original) = 2
  /\ Len(heap) > Len(inventory)
  /\ Deref(heap, inventory) = original

\* C3: usableInventory is the subsequence of the inventory made of exactly its
\* elements with broken = false, in order and with their multiplicity.
C3_FilterUsable ==
  After("filter") =>
    /\ Deref(heap, usableInventory) = SelectSeq(original, LAMBDA it : it.broken = FALSE)
    /\ \A k \in 1..Len(usableInventory) : \E m \in 1..Len(inventory) : usableInventory[k] = inventory[m]
    /\ \A k \in 1..Len(usableInventory) : heap[usableInventory[k]].broken = FALSE

C3_Witness ==
  /\ After("filter")
  /\ Len(original) = 2
  /\ original[1].broken /\ ~original[2].broken
  /\ Len(usableInventory) = 1

C3_WitnessEmpty ==
  /\ After("filter")
  /\ Len(original) = 2
  /\ original[1].broken /\ original[2].broken
  /\ usableInventory = <<>>

\* C4: upgradeAndFilterInventory(S) equals the usable filter applied to the
\* upgrade of S; on the literal inventory it yields Sword 15, Shield 10, Axe 17.
C4_UpgradeAndFilterIsComposition ==
  After("upgradeAndFilter") =>
    /\ Deref(heap, upgradedAndFiltered)
         = Deref(heap, ArrayFilter(heap, upgradedInventoryMap, "IsUsable"))
    /\ original = LiteralInventory =>
         Deref(heap, upgradedAndFiltered)
           = << [name |-> "Sword",  power |-> 15, broken |-> FALSE],
                [name |-> "Shield", power |-> 10, broken |-> FALSE],
                [name |-> "Axe",    power |-> 17, broken |-> FALSE] >>

C4_Witness ==
  /\ After("upgradeAndFilter")
  /\ original = LiteralInventory
  /\ Len(upgradedAndFiltered) = 3

\* C5: powerfulItem is the first element with power strictly above the
\* threshold (10 in the script), or the not-found result when there is none.
C5_FindFirstAbove ==
  After("find") =>
    LET hits == {k \in 1..Len(original) : original[k].power > 10}
    IN  IF hits = {} THEN powerfulItem = Undefined
        ELSE /\ powerfulItem # Undefined
             /\ powerfulItem = inventory[CHOOSE k \in hits : \A m \in hits : k <= m]

C5_Witness ==
  /\ After("find")
  /\ Len(original) = 2
  /\ original[1].power = 10
  /\ original[2].power = 11
  /\ powerfulItem = inventory[2]

C5_WitnessAbsent ==
  /\ After("find")
  /\ Len(original) = 1
  /\ original[1].power = 10
  /\ powerfulItem = Undefined

\* C6: brokenItemIndex is the smallest (0-based) index of a broken element;
\* when nothing is broken it is a value that is no index of any sequence.
C6_IndexOfFirstBroken ==
  After("findIndex") =>
    LET hits == {k \in 0..(Len(original) - 1) : original[k + 1].broken}
    IN  IF hits = {} THEN brokenItemIndex < 0
        ELSE /\ brokenItemIndex \in hits
             /\ \A m \in hits : brokenItemIndex <= m

C6_Witness ==
  /\ After("findIndex")
  /\ Len(original) = 2
  /\ ~original[1].broken /\ original[2].broken
  /\ brokenItemIndex = 1

C6_WitnessAbsent ==
  /\ After("findIndex")
  /\ Len(original) = 2
  /\ ~original[1].broken /\ ~original[2].broken
  /\ brokenItemIndex = NotFoundIndex

\* C7: hasBrokenItems is true exactly when some element is broken, and false
\* for the empty inventory.
C7_AnyBroken ==
  After("some") =>
    /\ hasBrokenItems <=> (\E k \in 1..Len(original) : original[k].broken)
    /\ original = <<>> => hasBrokenItems = FALSE

C7_Witness ==
  /\ After("some")
  /\ Len(original) = 2
  /\ ~original[1].broken /\ original[2].broken
  /\ hasBrokenItems

C7_WitnessEmpty ==
  /\ After("some")
  /\ original = <<>>
  /\ ~hasBrokenItems

\* C8: allPowerful is true exactly when every element has power strictly above
\* the threshold (5 in the script); it is true for the empty inventory.
C8_AllAbove ==
  After("every") =>
    /\ allPowerful <=> (\A k \in 1..Len(original) : original[k].power > 5)
    /\ original = <<>> => allPowerful = TRUE

C8_Witness ==
  /\ After("every")
  /\ Len(original) = 2
  /\ original[1].power = 6 /\ original[2].power = 5
  /\ ~allPowerful

C8_WitnessEmpty ==
  /\ After("every")
  /\ original = <<>>
  /\ allPowerful

\* C9: totalPower is the sum of the powers: 0 for the empty inventory, additive
\* over every split of the inventory into A ++ B, and 35 for the literal one.
C9_TotalPower ==
  After("reduce") =>
    /\ totalPower = SumPower(original)
    /\ original = <<>> => totalPower = 0
    /\ \A k \in 0..Len(inventory) :
         ArrayReduce(heap, SubSeq(inventory, 1, k), "AddPower", 0)
           + ArrayReduce(heap, SubSeq(inventory, k + 1, Len(inventory)), "AddPower", 0)
           = totalPower
    /\ original = LiteralInventory => totalPower = 35

C9_Witness ==
  /\ After("reduce")
  /\ original = LiteralInventory
  /\ totalPower = 35

\* C10: the for-loop, the field-by-field .map() and the spread .map() produce
\* sequences equal in length, order, name, power and broken.
C10_UpgradesAgree ==
  After("concise") =>
    /\ Len(upgradedInventoryLoop) = Len(upgradedInventoryMap)
    /\ Len(upgradedInventoryMap) = Len(upgradedInventoryConcise)
    /\ \A k \in 1..Len(upgradedInventoryLoop) :
         /\ heap[upgradedInventoryLoop[k]] = heap[upgradedInventoryMap[k]]
         /\ heap[upgradedInventoryMap[k]] = heap[upgradedInventoryConcise[k]]

C10_Witness ==
  /\ After("concise")
  /\ Len(upgradedInventoryConcise) = 2
  /\ original[1].broken /\ ~original[2].broken
  /\ original[1].power # original[2].power

====
